---- MODULE Spec2Model ----
(***************************************************************************)
(* A model of onepassword-cli-go: the OpCLI handle that shells out to the  *)
(* 1Password `op` binary, its sign-in and session bookkeeping, the command *)
(* builder (ExecuteOpCommand / getDefaultArgs), the decoders that attach   *)
(* the back-reference to every returned entity, and the local edits of an  *)
(* Item.                                                                   *)
(*                                                                         *)
(* Strings are TLA+ strings.  A subprocess is a record [argv, stdin]: argv *)
(* is the argument list handed to exec.Command after the binary, stdin the *)
(* bytes the parent feeds the child.  What the child answers (exit status, *)
(* stdout, stderr) is chosen by the environment.  Time is counted in       *)
(* minutes.  A Go panic is the value panic = TRUE of a call's result.      *)
(***************************************************************************)
EXTENDS Integers, Sequences, FiniteSets, TLC

VARIABLES
    cli,        \* the OpCLI handle: [Path, Account]; Account is a pointer or NilAccount
    heap,       \* the Account structs the pointers refer to
    env,        \* the process environment: OP_SESSION_<UserUUID> -> token
    now,        \* wall clock, in minutes
    signedAt,   \* per account, <<t>> once SignIn last returned nil at t (history)
    spawned,    \* the subprocesses started by the last call, in order
    ret,        \* the call the caller is looking at: [op, in, answer, panic, err, out]
    item,       \* the Item the caller edits locally
    proc        \* a sign-in in progress: the parent, its child, the stdin pipe and its writer

vars == <<cli, heap, env, now, signedAt, spawned, ret, item, proc>>

----------------------------------------------------------------------------
(* Bounds of the model *)

\* The clock starts this many minutes after the zero time.Time.
StartClock == 40
\* The clock stops advancing this many minutes after StartClock.
MaxElapsed == 60
\* The longest list a child process answers with.
MaxList == 2
\* The longest argument list a caller passes.
MaxArgs == 2
\* The longest URL list of an item.
MaxURLs == 3
\* The longest field list of an item.
MaxFields == 3
\* The longest section list of an item.
MaxSections == 2
\* The most section edits a caller makes on one item.
MaxEdits == 6

----------------------------------------------------------------------------
(* Values *)

NilAccount == "nil"
NilCli == "nilcli"
TheCli == "cli"
NoErr == <<>>
Unset == "unset"
\* signedAt holds <<>> until the first successful SignIn, then <<t>>
Never == <<>>

\* Account structs the caller holds: one listed by `op account list`, one
\* literal whose UserUUID was left empty.
AccountPtrs == {"acc1", "acc0"}
UUIDOf(p) == IF p = "acc1" THEN "u1" ELSE ""
UUIDs == {UUIDOf(p) : p \in AccountPtrs}
EmailOf(p) == IF p = "acc1" THEN "a@example.com" ELSE ""

\* The Account struct SignInWithServiceAccount allocates.
ServicePtr == "sa"
HeapPtrs == AccountPtrs \cup {ServicePtr}

\* The names of the environment variables the program writes: OP_SESSION_<uuid>
\* is held under its uuid.
ServiceTokenVar == "OP_SERVICE_ACCOUNT_TOKEN"
EnvKeys == UUIDs \cup {ServiceTokenVar}

\* The resolved binary: FindOpExecutable's result.
OpPath == "/usr/bin/op"

Passwords == {"hunter2", "s3cret"}

SeqsUpTo(S, n) == UNION {[1..k -> S] : k \in 0..n}

----------------------------------------------------------------------------
(* src/accounts.go: the session clock of an Account *)

\* 1740 * time.Second, in minutes
SignInExpireMinutes == 29

ZeroAccount(p) ==
    [UserUUID |-> UUIDOf(p), Email |-> EmailOf(p), signInTime |-> 0,
     signInExpireDuration |-> 0, sessionToken |-> ""]

\* a SetSignInInfo that forgets to stamp the sign-in time
SetSignInInfo_NoStamp(a, token) ==
    [a EXCEPT !.sessionToken = token,
              !.signInExpireDuration = SignInExpireMinutes]

SetSignInInfo(a, token) ==
    [a EXCEPT !.signInTime = now,
              !.sessionToken = token,
              !.signInExpireDuration = SignInExpireMinutes]

IsSessionExpired(a) == now - a.signInTime > a.signInExpireDuration

IsSessionValid(a) == ~IsSessionExpired(a)

----------------------------------------------------------------------------
(* Strings: the conversions the code applies *)

\* strings.TrimSpace on what a signin child prints
TrimSpace(s) ==
    CASE s = "tok1\n" -> "tok1"
      [] s = "tok2\n" -> "tok2"
      [] s = "\n" -> ""
      [] OTHER -> s

\* strings.ToLower, word by word
ToLowerWord(w) ==
    CASE w = "Enter" -> "enter"
      [] w = "Authentication" -> "authentication"
      [] w = "[ERROR]" -> "[error]"
      [] OTHER -> w

ToLower(ws) == [i \in 1..Len(ws) |-> ToLowerWord(ws[i])]

\* strings.Contains, on texts held as sequences of words
Contains(ws, phrase) ==
    \E i \in 0..(Len(ws) - Len(phrase)) :
        \A j \in 1..Len(phrase) : ws[i + j] = phrase[j]

\* strings.Fields of one argument: its whitespace-separated words
WordsOf(s) ==
    CASE s = "" -> <<>>
      [] s = "my account" -> <<"my", "account">>
      [] s = "x --format=json" -> <<"x", "--format=json">>
      [] OTHER -> <<s>>

RECURSIVE FieldsOfJoin(_)
\* strings.Fields(strings.Join(args, " "))
FieldsOfJoin(args) ==
    IF args = <<>> THEN <<>>
    ELSE WordsOf(Head(args)) \o FieldsOfJoin(Tail(args))

----------------------------------------------------------------------------
(* Subprocesses and what they answer *)

NoStdin == <<>>

Spawn(argv, stdin) == [argv |-> argv, stdin |-> stdin]

\* The result of a call: a panic, or an error (NoErr is nil) and an output.
Result(panic, err, out, spawns) ==
    [panic |-> panic, err |-> err, out |-> out, spawns |-> spawns]

NoOut == <<>>

\* What `op signin --raw` answers: a token line, an empty line or nothing on a
\* clean exit; a message on stderr otherwise.
SigninStderrs ==
    { <<"Enter", "the", "password", "for", "u1">>,
      <<"[ERROR]", "Authentication", "required">>,
      <<"[ERROR]", "network", "unreachable">>,
      <<>> }

SigninOutcomes ==
    {[exit |-> 0, stdout |-> s, stderr |-> <<>>] : s \in {"tok1\n", "tok2\n", "\n"}}
    \cup {[exit |-> 1, stdout |-> "", stderr |-> e] : e \in SigninStderrs}

NoAnswer == [exit |-> 1, stdout |-> "", stderr |-> <<>>]
NoRead == [ok |-> FALSE, password |-> ""]

\* readPassword: the typed password, or a terminal error
PasswordReads ==
    {[ok |-> TRUE, password |-> w] : w \in Passwords}
    \cup {[ok |-> FALSE, password |-> ""]}

\* What a domain command answers on stdout: JSON of some shape, or garbage.
EntityIDs == {"e1", "e2"}

Payloads ==
    {[shape |-> "list", ids |-> l] : l \in SeqsUpTo(EntityIDs, MaxList)}
    \cup {[shape |-> "object", ids |-> <<i>>] : i \in EntityIDs}
    \cup {[shape |-> "malformed", ids |-> <<>>]}

NoPayload == [shape |-> "none", ids |-> <<>>]

CmdStderrs == { <<>>, <<"vault", "not", "found">> }

CmdOutcomes ==
    {[exit |-> 0, stdout |-> pl, stderr |-> <<>>] : pl \in Payloads}
    \cup {[exit |-> 1, stdout |-> NoPayload, stderr |-> e] : e \in CmdStderrs}

----------------------------------------------------------------------------
(* src/client.go: SignIn *)

\* the argument list of both signin attempts
SignInArgs(uuid) == <<"signin", "--account", uuid, "--raw">>

\* a retry that hands the password over as an argument
SignInRetrySpawn_InArgv(uuid, password) ==
    Spawn(SignInArgs(uuid) \o <<password>>, NoStdin)

\* the password retry: cmd.Stdin = strings.NewReader(password)
SignInRetrySpawn(uuid, password) == Spawn(SignInArgs(uuid), <<password>>)

\* a test that compares without lowering the case
NeedsPassword_CaseSensitive(stderr) ==
    \/ Contains(stderr, <<"enter", "the", "password", "for">>)
    \/ Contains(stderr, <<"authentication">>)

\* the stderr texts after which SignIn asks for a password
NeedsPassword(stderr) ==
    \/ Contains(ToLower(stderr), <<"enter", "the", "password", "for">>)
    \/ Contains(ToLower(stderr), <<"authentication">>)

\* os.Setenv("OP_SESSION_"+uuid, token).  It fails only on a key holding '='
\* or NUL or a value holding NUL; no modelled UserUUID or token holds one.
Setenv(e, uuid, token) == [e EXCEPT ![uuid] = token]

\* SignIn(ctx, account) as a function of what the two children and the
\* terminal answer: [err, token, spawns, signed, setenv, read], read telling
\* whether readPassword was called
SignInRun(p, o1, pw, o2) ==
    LET uuid == heap[p].UserUUID
        first == Spawn(SignInArgs(uuid), NoStdin)
        t1 == TrimSpace(o1.stdout)
        t2 == TrimSpace(o2.stdout)
    IN  IF o1.exit = 0
        THEN [err |-> NoErr, token |-> t1, spawns |-> <<first>>,
              signed |-> TRUE, setenv |-> t1 # "", read |-> FALSE]
        ELSE IF NeedsPassword(o1.stderr)
        THEN IF ~pw.ok
             THEN [err |-> <<"error reading password">>, token |-> "",
                   spawns |-> <<first>>, signed |-> FALSE, setenv |-> FALSE,
                   read |-> TRUE]
             ELSE LET second == SignInRetrySpawn(uuid, pw.password)
                  IN  IF o2.exit # 0
                      THEN [err |-> <<"signin failed: ", "exit status 1">>,
                            token |-> "", spawns |-> <<first, second>>,
                            signed |-> FALSE, setenv |-> FALSE, read |-> TRUE]
                      ELSE IF t2 = ""
                      THEN [err |-> <<"no session token received from signin">>,
                            token |-> "", spawns |-> <<first, second>>,
                            signed |-> FALSE, setenv |-> FALSE, read |-> TRUE]
                      ELSE [err |-> NoErr, token |-> t2,
                            spawns |-> <<first, second>>,
                            signed |-> TRUE, setenv |-> TRUE, read |-> TRUE]
        ELSE [err |-> <<"signin failed: ", o1.stderr>>, token |-> "",
              spawns |-> <<first>>, signed |-> FALSE, setenv |-> FALSE,
              read |-> FALSE]

\* The caller is single-threaded: it makes a call, looks at what came back
\* (ret, spawned), and only then goes on.
NoCall ==
    [op |-> "none", in |-> <<>>, answer |-> NoAnswer, panic |-> FALSE,
     err |-> NoErr, out |-> NoOut]

Idle == ret.op = "none"

Done ==
    /\ ~Idle
    /\ ret' = NoCall
    /\ spawned' = <<>>
    /\ UNCHANGED <<proc, cli, heap, env, now, signedAt, item>>

\* The answers SignIn never reads are fixed, so each run is taken once.
Asked(o1, pw, o2) ==
    /\ (o1.exit = 0 \/ ~NeedsPassword(o1.stderr)) => (pw = NoRead /\ o2 = NoAnswer)
    /\ ~pw.ok => o2 = NoAnswer

\* a SignIn that stamps the account before it knows the outcome
SignIn_StampFirst(p, o1, pw, o2) ==
    LET r == SignInRun(p, o1, pw, o2)
    IN  /\ Idle
        /\ Asked(o1, pw, o2)
        /\ env' = IF r.setenv THEN Setenv(env, heap[p].UserUUID, r.token) ELSE env
        /\ heap' = [heap EXCEPT ![p] = SetSignInInfo(heap[p], r.token)]
        /\ cli' = IF r.signed THEN [cli EXCEPT !.Account = p] ELSE cli
        /\ signedAt' = IF r.err = NoErr
                       THEN [signedAt EXCEPT ![p] = <<now>>]
                       ELSE signedAt
        /\ spawned' = r.spawns
        /\ ret' = [op |-> "SignIn", in |-> <<p, pw, r.read>>, answer |-> o1,
                   panic |-> FALSE,
                   err |-> r.err, out |-> NoOut]
        /\ UNCHANGED <<proc, now, item>>

SignIn(p, o1, pw, o2) ==
    LET r == SignInRun(p, o1, pw, o2)
    IN  /\ Idle
        /\ Asked(o1, pw, o2)
        /\ env' = IF r.setenv THEN Setenv(env, heap[p].UserUUID, r.token) ELSE env
        /\ heap' = IF r.signed
                   THEN [heap EXCEPT ![p] = SetSignInInfo(heap[p], r.token)]
                   ELSE heap
        /\ cli' = IF r.signed THEN [cli EXCEPT !.Account = p] ELSE cli
        /\ signedAt' = IF r.err = NoErr
                       THEN [signedAt EXCEPT ![p] = <<now>>]
                       ELSE signedAt
        /\ spawned' = r.spawns
        /\ ret' = [op |-> "SignIn", in |-> <<p, pw, r.read>>, answer |-> o1,
                   panic |-> FALSE,
                   err |-> r.err, out |-> NoOut]
        /\ UNCHANGED <<proc, now, item>>

----------------------------------------------------------------------------
(* SignInWithServiceAccount *)

AccessTokens == {"ops_token"}

NoUser == [ID |-> "", Email |-> ""]

\* What cli.GetMe() answers: the service account's own user, or an error.
GetMeOutcomes ==
    { [ok |-> TRUE, user |-> [ID |-> "u9", Email |-> "svc@example.com"],
       err |-> NoErr],
      [ok |-> FALSE, user |-> NoUser, err |-> <<"failed to get user">>] }

\* &Account{UserUUID: user.ID, Email: user.Email}
ServiceAccount(user) ==
    [ZeroAccount(ServicePtr) EXCEPT !.UserUUID = user.ID, !.Email = user.Email]

\* a sign-in that ignores the lookup error
SignInWithServiceAccount_IgnoreError(accesstoken, me) ==
    /\ Idle
    /\ cli' = [cli EXCEPT !.accesstoken = accesstoken, !.isServiceAccount = TRUE,
                          !.Account = ServicePtr]
    /\ env' = [env EXCEPT ![ServiceTokenVar] = accesstoken]
    /\ heap' = [heap EXCEPT ![ServicePtr] = ServiceAccount(me.user)]
    /\ ret' = [op |-> "SignInWithServiceAccount", in |-> <<accesstoken>>,
               answer |-> me, panic |-> FALSE, err |-> NoErr, out |-> NoOut]
    /\ spawned' = <<>>
    /\ UNCHANGED <<proc, now, signedAt, item>>

SignInWithServiceAccount(accesstoken, me) ==
    /\ Idle
    /\ cli' = IF me.ok
              THEN [cli EXCEPT !.accesstoken = accesstoken,
                               !.isServiceAccount = TRUE,
                               !.Account = ServicePtr]
              ELSE [cli EXCEPT !.accesstoken = accesstoken,
                               !.isServiceAccount = TRUE]
    /\ env' = [env EXCEPT ![ServiceTokenVar] = accesstoken]
    /\ heap' = IF me.ok
               THEN [heap EXCEPT ![ServicePtr] = ServiceAccount(me.user)]
               ELSE heap
    /\ ret' = [op |-> "SignInWithServiceAccount", in |-> <<accesstoken>>,
               answer |-> me, panic |-> FALSE, err |-> me.err, out |-> NoOut]
    /\ spawned' = <<>>
    /\ UNCHANGED <<proc, now, signedAt, item>>

----------------------------------------------------------------------------
(* src/accounts.go: the session check, and the passing of time *)

CheckSession(p) ==
    /\ Idle
    /\ ret' = [op |-> "IsSessionValid", in |-> <<p>>, answer |-> NoAnswer,
               panic |-> FALSE, err |-> NoErr, out |-> IsSessionValid(heap[p])]
    /\ spawned' = <<>>
    /\ UNCHANGED <<proc, cli, heap, env, now, signedAt, item>>

\* Time passes in steps that put 28, 29 and 30 minutes after a sign-in, and
\* one minute after it, within reach.
TickSteps == {14, 15}

Tick(d) ==
    /\ Idle
    /\ now + d <= StartClock + MaxElapsed
    /\ now' = now + d
    /\ UNCHANGED <<proc, cli, heap, env, signedAt, spawned, ret, item>>

----------------------------------------------------------------------------
(* src/client.go: the command builder and the executor *)

\* A call that only reads the handle: the caller now looks at its result.
Returns(op, in, answer, r) ==
    /\ Idle
    /\ ret' = [op |-> op, in |-> in, answer |-> answer, panic |-> r.panic,
               err |-> r.err, out |-> r.out]
    /\ spawned' = r.spawns
    /\ UNCHANGED <<proc, cli, heap, env, now, signedAt, item>>

\* a nil pointer dereference: the call never returns
Panic == Result(TRUE, NoErr, NoOut, <<>>)

Fails(err, spawns) == Result(FALSE, err, NoOut, spawns)

containsArgument(args, arg) == \E i \in 1..Len(args) : args[i] = arg

getDefaultArgs ==
    LET args == <<"--account", heap[cli.Account].UserUUID>>
    IN  IF ~containsArgument(args, "--format=json")
        THEN Append(args, "--format=json")
        ELSE args

\* a check that forgets the empty UserUUID
AccountMissing_NilOnly == cli.Account = NilAccount

\* cli.Account == nil || cli.Account.UserUUID == ""
AccountMissing ==
    \/ cli.Account = NilAccount
    \/ heap[cli.Account].UserUUID = ""

\* what (*exec.ExitError).Error() prints for exit status 1
ExitError == <<"exit", "status", "1">>

\* h is the receiver: the handle, or the nil back-reference of an entity.
\* The error of a failed child is fmt.Errorf("failed to execute command '%v': %w",
\* args, err): the wrapper text, the arguments and the process error.
ExecuteOpCommand(h, args, o) ==
    IF h = NilCli THEN Panic
    ELSE IF AccountMissing
    THEN Fails(<<"account information is missing">>, <<>>)
    ELSE LET full == args \o getDefaultArgs
         IN  IF o.exit # 0
             THEN Fails(<< <<"failed to execute command">>, full, ExitError >>,
                        <<Spawn(full, NoStdin)>>)
             ELSE Result(FALSE, NoErr, o.stdout, <<Spawn(full, NoStdin)>>)

\* &OpCliError{Err: err, StderrOutput: stderr.String()}
OpCliError(StderrOutput, Err) == <<"OpCliError", StderrOutput, Err>>

\* an Error() that always prints the process error
Error_ErrOnly(e) == e[3]

\* (*OpCliError).Error(): the stderr text unless it is empty
Error(e) == IF e[2] # <<>> THEN e[2] ELSE e[3]

isInteractiveCommand(args) ==
    IF Len(args) = 0 THEN FALSE
    ELSE args[1] \in {"signin", "account", "user"}

\* the child of pipePasswordCommand(password, command), where command is
\* cli.Path, a blank, and the arguments joined by blanks
pipePasswordCommand(password, cmdArgs) ==
    Spawn(WordsOf(cli.Path) \o FieldsOfJoin(cmdArgs), <<password, "\n">>)

\* a builder that appends --format=json for every verb
ExecuteCmdArgs_Always(args) == Append(args, "--format=json")

\* cmdArgs of Execute: every verb but signin gets --format=json appended
ExecuteCmdArgs(args) ==
    IF args[1] # "signin" THEN Append(args, "--format=json") ELSE args

\* Execute(args...): o is the child's answer, pw what readPassword returns,
\* pipeOk whether cmd.StdinPipe() succeeds
Execute(args, o, pw, pipeOk) ==
    IF Len(args) = 0 THEN Fails(<<"no arguments provided">>, <<>>)
    ELSE LET cmdArgs == ExecuteCmdArgs(args)
         IN  IF ~isInteractiveCommand(args)
             THEN IF o.exit # 0
                  THEN Fails(OpCliError(o.stderr, ExitError),
                             <<Spawn(cmdArgs, NoStdin)>>)
                  ELSE Result(FALSE, NoErr, o.stdout, <<Spawn(cmdArgs, NoStdin)>>)
             ELSE IF args[1] = "signin"
             THEN IF ~pw.ok THEN Fails(<<"error reading password">>, <<>>)
                  ELSE IF ~pipeOk THEN Panic
                  ELSE LET child == pipePasswordCommand(pw.password, cmdArgs)
                       IN  IF o.exit # 0
                           THEN Fails(<<"exit status 1">>, <<child>>)
                           ELSE Result(FALSE, NoErr, o.stdout, <<child>>)
             ELSE IF o.exit # 0
                  THEN Fails(<<"exit status 1">>, <<Spawn(cmdArgs, <<"os.Stdin">>)>>)
                  ELSE Result(FALSE, NoErr, NoOut, <<Spawn(cmdArgs, <<"os.Stdin">>)>>)

\* json.Marshal(item), fed to the child's stdin
ItemJSON(it) == <<[json |-> "Item", ID |-> it.ID]>>

\* json.Unmarshal into one struct: its cli field is not in the JSON
UnmarshalOne(kind, pl) == [kind |-> kind, ID |-> pl.ids[1], cli |-> NilCli]

CreateItem(h, it, genPassword, o) ==
    IF it.ID # "" THEN Fails(<<"item ID should be empty for new items">>, <<>>)
    ELSE IF h = NilCli THEN Panic
    ELSE IF AccountMissing
    THEN Fails(<<"account information is missing">>, <<>>)
    ELSE LET verb == IF genPassword
                     THEN <<"item", "create", "--generate-password">>
                     ELSE <<"item", "create">>
             child == Spawn(verb \o getDefaultArgs, ItemJSON(it))
         IN  IF o.exit # 0
             THEN Fails(<<"failed to execute 'op item create'", "exit status 1">>,
                        <<child>>)
             ELSE IF o.stdout.shape # "object"
             THEN Fails(<<"failed to unmarshal created item">>, <<child>>)
             ELSE Result(FALSE, NoErr, UnmarshalOne("Item", o.stdout), <<child>>)

updateItemWithStruct(h, it, o) ==
    IF h = NilCli THEN Panic
    ELSE IF AccountMissing
    THEN Fails(<<"account information is missing">>, <<>>)
    ELSE LET child == Spawn(<<"item", "edit", it.ID>> \o getDefaultArgs, ItemJSON(it))
         IN  IF o.exit # 0
             THEN Fails(<<"failed to execute 'op item edit'", "exit status 1">>,
                        <<child>>)
             ELSE IF o.stdout.shape # "object"
             THEN Fails(<<"failed to unmarshal updated item">>, <<child>>)
             ELSE Result(FALSE, NoErr, UnmarshalOne("Item", o.stdout), <<child>>)

deleteItem(h, it, o) ==
    IF it.ID = "" THEN Fails(<<"item ID cannot be empty">>, <<>>)
    ELSE LET r == ExecuteOpCommand(h, <<"item", "delete", it.ID>>, o)
         IN  IF r.panic THEN r
             ELSE IF r.err # NoErr
             THEN Fails(<<"failed to delete item with ID", it.ID, r.err>>, r.spawns)
             ELSE Result(FALSE, NoErr, NoOut, r.spawns)

----------------------------------------------------------------------------
(* The decoders: items, vaults, groups, users *)

\* json.Unmarshal into a slice, then the loop that sets cli on every element;
\* backref is what the loop assigns (NilCli where the code has no such loop)
DecodeList(kind, pl, backref) ==
    [i \in 1..Len(pl.ids) |-> [kind |-> kind, ID |-> pl.ids[i], cli |-> backref]]

\* a list operation built on ExecuteOpCommand
ListVia(kind, h, args, o, backref) ==
    LET r == ExecuteOpCommand(h, args, o)
    IN  IF r.panic \/ r.err # NoErr THEN [r EXCEPT !.out = NoOut]
        ELSE IF o.stdout.shape # "list"
        THEN Fails(<<"json: cannot unmarshal">>, r.spawns)
        ELSE Result(FALSE, NoErr, DecodeList(kind, o.stdout, backref), r.spawns)

\* a get or create operation built on ExecuteOpCommand
OneVia(kind, h, args, o, backref) ==
    LET r == ExecuteOpCommand(h, args, o)
    IN  IF r.panic \/ r.err # NoErr THEN [r EXCEPT !.out = NoOut]
        ELSE IF o.stdout.shape # "object"
        THEN Fails(<<"json: cannot unmarshal">>, r.spawns)
        ELSE Result(FALSE, NoErr,
                    [UnmarshalOne(kind, o.stdout) EXCEPT !.cli = backref], r.spawns)

GetItems(o) == ListVia("Item", TheCli, <<"item", "list">>, o, TheCli)

GetVaultDetails(o) == ListVia("Vault", TheCli, <<"vault", "list">>, o, TheCli)

\* the variant whose Vault struct has no cli field and which sets none
GetVaultDetailsPlain(o) == ListVia("Vault", TheCli, <<"vault", "list">>, o, NilCli)

ListGroups(o) == ListVia("Group", TheCli, <<"group", "list">>, o, TheCli)

ListUsers(o) == ListVia("User", TheCli, <<"user", "list">>, o, TheCli)

ListMembers(group, o) ==
    ListVia("User", group.cli, <<"group", "user", "list", group.ID>>, o, group.cli)

getItem(identifier, o) ==
    OneVia("Item", TheCli, <<"item", "get", identifier>>, o, TheCli)

getVaultDetails(identifier, o) ==
    OneVia("Vault", TheCli, <<"vault", "get", identifier>>, o, TheCli)

getGroup(groupID, o) ==
    OneVia("Group", TheCli, <<"group", "get ", groupID>>, o, TheCli)

getUser(userID, o) ==
    OneVia("User", TheCli, <<"user", "get ", userID>>, o, TheCli)

CreateGroup(name, o) ==
    OneVia("Group", TheCli, <<"group", "create", name, "--description", "">>, o, TheCli)

----------------------------------------------------------------------------
(* The entities' own operations *)

ItemSave(it, o) ==
    IF it.cli = NilCli THEN Fails(<<"cli is nil, cannot save item">>, <<>>)
    ELSE IF it.ID = "" THEN Fails(<<"item ID is empty, cannot save item">>, <<>>)
    ELSE LET r == updateItemWithStruct(it.cli, it, o)
         IN  IF r.panic THEN r
             ELSE IF r.err # NoErr
             THEN Fails(<<"failed to save item", r.err>>, r.spawns)
             ELSE Result(FALSE, NoErr, NoOut, r.spawns)

ItemDelete(it, o) ==
    IF it.cli = NilCli THEN Fails(<<"cli is nil, cannot delete item">>, <<>>)
    ELSE IF it.ID = "" THEN Fails(<<"item ID is empty, cannot delete item">>, <<>>)
    ELSE LET r == deleteItem(it.cli, it, o)
         IN  IF r.panic THEN r
             ELSE IF r.err # NoErr
             THEN Fails(<<"failed to delete item", r.err>>, r.spawns)
             ELSE Result(FALSE, NoErr, NoOut, r.spawns)

\* Vault.Delete, Group.Delete, User.Delete: the back-reference is used unchecked
SelfVia(e, args, o, wrap) ==
    LET r == ExecuteOpCommand(e.cli, args, o)
    IN  IF r.panic THEN r
        ELSE IF r.err # NoErr
        THEN Fails(IF wrap = "" THEN r.err ELSE <<wrap, r.err>>, r.spawns)
        ELSE Result(FALSE, NoErr, NoOut, r.spawns)

VaultDelete(vault, o) ==
    SelfVia(vault, <<"vault", "delete", vault.ID>>, o, "failed to delete vault")

VaultSetName(vault, name, o) ==
    IF name = "" THEN Fails(<<"name cannot be empty">>, <<>>)
    ELSE SelfVia(vault, <<"vault", "edit", vault.ID, "--name", name>>, o,
                 "failed to edit vault name")

GroupDelete(group, o) == SelfVia(group, <<"group", "delete", group.ID>>, o, "")

UserDelete(user, o) == SelfVia(user, <<"user", "delete", user.ID>>, o, "")

----------------------------------------------------------------------------
(* Item URLs: AddURL and DeleteURLs *)

Hrefs == {"h1", "h2"}

ItemURLs == [Href : Hrefs, Primary : BOOLEAN]

AddURL(urls, url) ==
    Append(IF url.Primary
           THEN [i \in 1..Len(urls) |-> [urls[i] EXCEPT !.Primary = FALSE]]
           ELSE urls,
           url)

RECURSIVE DeleteLoop(_, _, _, _)
\* The loop of DeleteURLs.  updatedURLs := item.URLs[:0] shares the backing
\* array arr of item.URLs; i is the element the range reads next, k is
\* len(updatedURLs).
DeleteLoop(arr, href, i, k) ==
    IF i > Len(arr) THEN [arr |-> arr, k |-> k]
    ELSE IF arr[i].Href = href
    THEN DeleteLoop(arr, href, i + 1, k)
    ELSE DeleteLoop([arr EXCEPT ![k + 1] = arr[i]], href, i + 1, k + 1)

\* a DeleteURLs without the guard on the last URL
DeleteURLs_NoLastGuard(urls, href) ==
    IF Len(urls) = 0
    THEN [err |-> <<"no URLs found to remove">>, urls |-> urls]
    ELSE LET l == DeleteLoop(urls, href, 1, 0)
         IN  IF l.k = Len(urls)
             THEN [err |-> <<"no URLs with href found", href>>, urls |-> l.arr]
             ELSE [err |-> NoErr, urls |-> SubSeq(l.arr, 1, l.k)]

\* DeleteURLs(href) on an item whose URLs are urls: [err, urls]
DeleteURLs(urls, href) ==
    IF Len(urls) = 0
    THEN [err |-> <<"no URLs found to remove">>, urls |-> urls]
    ELSE IF Len(urls) = 1
    THEN [err |-> <<"cannot delete the last URL due to a known issue in the 1Password CLI">>,
          urls |-> urls]
    ELSE LET l == DeleteLoop(urls, href, 1, 0)
         IN  IF l.k = Len(urls)
             THEN [err |-> <<"no URLs with href found", href>>, urls |-> l.arr]
             ELSE [err |-> NoErr, urls |-> SubSeq(l.arr, 1, l.k)]

CallAddURL(url) ==
    /\ Idle
    /\ Len(item.URLs) < MaxURLs
    /\ item' = [item EXCEPT !.URLs = AddURL(item.URLs, url)]
    /\ ret' = [op |-> "AddURL", in |-> <<url, item.URLs>>, answer |-> NoAnswer,
               panic |-> FALSE, err |-> NoErr, out |-> NoOut]
    /\ spawned' = <<>>
    /\ UNCHANGED <<proc, cli, heap, env, now, signedAt>>

CallDeleteURLs(href) ==
    LET r == DeleteURLs(item.URLs, href)
    IN  /\ Idle
        /\ item' = [item EXCEPT !.URLs = r.urls]
        /\ ret' = [op |-> "DeleteURLs", in |-> <<href, item.URLs>>,
                   answer |-> NoAnswer, panic |-> FALSE, err |-> r.err,
                   out |-> NoOut]
        /\ spawned' = <<>>
        /\ UNCHANGED <<proc, cli, heap, env, now, signedAt>>

----------------------------------------------------------------------------
(* Item fields: AddField and AddUserName *)

\* Field.Section is a *Section.  A pointer is [arr, idx]: arr = 0 and idx = 0
\* is nil; arr = 0 and idx > 0 is a Section object of its own (as a decoder
\* or a caller allocates); arr > 0 is element idx of the backing array of
\* item.Sections that has capacity arr.
NilSection == [arr |-> 0, idx |-> 0]

OwnPtr(k) == [arr |-> 0, idx |-> k]

\* the Section objects allocated outside item.Sections
OwnSections == <<[ID |-> "s1", Label |-> "L"]>>

FieldPurposes == {"username", "password"}

Usernames == {"alice", "bob"}

\* the fields a caller builds or a decoder returns
Fields ==
    [ID : {"f1"}, Purpose : FieldPurposes, Section : {NilSection, OwnPtr(1)},
     Value : Usernames]

AddField(fields, field) == Append(fields, field)

\* the field AddUserName creates: no Section is set
NewUserNameField(username) ==
    [ID |-> "username", Purpose |-> "username", Section |-> NilSection,
     Value |-> username]

RECURSIVE AddUserNameLoop(_, _, _)
\* the range loop of AddUserName from index i: the first field that matches
\* is updated and the method returns; with no match the new field is appended
AddUserNameLoop(fields, username, i) ==
    IF i > Len(fields) THEN Append(fields, NewUserNameField(username))
    ELSE IF fields[i].Purpose = "username" /\ fields[i].Section # NilSection
    THEN [fields EXCEPT ![i].Value = username]
    ELSE AddUserNameLoop(fields, username, i + 1)

AddUserName(fields, username) == AddUserNameLoop(fields, username, 1)

CallAddField(field) ==
    /\ Idle
    /\ Len(item.Fields) < MaxFields
    /\ item' = [item EXCEPT !.Fields = AddField(item.Fields, field)]
    /\ ret' = [op |-> "AddField", in |-> <<field>>, answer |-> NoAnswer,
               panic |-> FALSE, err |-> NoErr, out |-> NoOut]
    /\ spawned' = <<>>
    /\ UNCHANGED <<proc, cli, heap, env, now, signedAt>>

\* AddUserName returns nothing, so the caller may call it again at once
CallAddUserName(username) ==
    /\ ret.op \in {"none", "AddUserName"}
    /\ Len(AddUserName(item.Fields, username)) <= MaxFields
    /\ item' = [item EXCEPT !.Fields = AddUserName(item.Fields, username)]
    /\ ret' = [op |-> "AddUserName", in |-> <<username>>, answer |-> NoAnswer,
               panic |-> FALSE, err |-> NoErr, out |-> NoOut]
    /\ spawned' = <<>>
    /\ UNCHANGED <<proc, cli, heap, env, now, signedAt>>

----------------------------------------------------------------------------
(* Item sections: AddSection, AddFieldToSection, MoveFieldToSection,
   DeleteFieldFromSection, DeleteSection *)

ZeroSection == [ID |-> "", Label |-> ""]

\* The capacities append gives a []Section grown one element at a time; a
\* backing array is named by its capacity, each being allocated once.
Caps == {1, 2, 4, 8}

GrowCap(c) == IF c = 0 THEN 1 ELSE 2 * c

\* a nil slice, and no backing array written yet
NoSections == [arr |-> 0, len |-> 0]

NoMem == [c \in Caps |-> [i \in 1..c |-> ZeroSection]]

\* item.Sections as the sequence of its elements
SecSeq(it) ==
    [i \in 1..it.Sections.len |-> it.mem[it.Sections.arr][i]]

\* *ptr, for a pointer that is not nil
Deref(it, ptr) ==
    IF ptr.arr = 0 THEN OwnSections[ptr.idx] ELSE it.mem[ptr.arr][ptr.idx]

\* the least index of a non-empty set of indices: where a loop with break stops
First(S) == CHOOSE i \in S : \A j \in S : i <= j

isSectionIDUnique(it, sectionID) ==
    \A i \in 1..it.Sections.len : SecSeq(it)[i].ID # sectionID

\* item.Sections = append(item.Sections, section)
AppendSection(it, section) ==
    LET c == it.Sections.arr
        n == it.Sections.len
    IN  IF n < c
        THEN [it EXCEPT !.mem[c][n + 1] = section, !.Sections.len = n + 1]
        ELSE LET d == GrowCap(c)
             IN  [it EXCEPT
                    !.mem[d] = [i \in 1..d |->
                                   IF i <= n THEN it.mem[c][i]
                                   ELSE IF i = n + 1 THEN section
                                   ELSE ZeroSection],
                    !.Sections = [arr |-> d, len |-> n + 1]]

\* each of the operations below yields [err, it]: the error and the item after

AddSection(it, section) ==
    IF ~isSectionIDUnique(it, section.ID)
    THEN [err |-> <<"SectionID is not unique within item">>, it |-> it]
    ELSE [err |-> NoErr, it |-> AppendSection(it, section)]

\* the indices of item.Sections that match section by ID and Label
SectionMatches(it, section) ==
    {i \in 1..it.Sections.len :
        SecSeq(it)[i].ID = section.ID /\ SecSeq(it)[i].Label = section.Label}

AddFieldToSection(it, section, field) ==
    IF SectionMatches(it, section) = {}
    THEN [err |-> <<"Section not found in item">>, it |-> it]
    ELSE LET i == First(SectionMatches(it, section))
             f == [field EXCEPT !.Section = [arr |-> it.Sections.arr, idx |-> i]]
         IN  [err |-> NoErr, it |-> [it EXCEPT !.Fields = Append(it.Fields, f)]]

MoveFieldToSection(it, field, section) ==
    IF SectionMatches(it, section) = {}
    THEN [err |-> <<"Section not found in item">>, it |-> it]
    ELSE LET foundSection ==
                 [arr |-> it.Sections.arr, idx |-> First(SectionMatches(it, section))]
             hits == {j \in 1..Len(it.Fields) : it.Fields[j].ID = field.ID}
         IN  IF hits = {}
             THEN [err |-> <<"Field not found in item">>, it |-> it]
             ELSE [err |-> NoErr,
                   it |-> [it EXCEPT !.Fields[First(hits)].Section = foundSection]]

\* The loop of DeleteFieldFromSection over the backing array arr of
\* item.Fields, n being len(item.Fields).  The loop variable shadows the
\* parameter field, so field.ID == field.ID holds for every element: the
\* first field of the section is the one removed, in place.
DeleteFieldLoop(it, arr, n, section) ==
    LET hits == {i \in 1..n :
                    /\ arr[i].Section # NilSection
                    /\ Deref(it, arr[i].Section).ID = section.ID
                    /\ Deref(it, arr[i].Section).Label = section.Label}
    IN  IF hits = {} THEN [found |-> FALSE, arr |-> arr, n |-> n]
        ELSE [found |-> TRUE,
              arr |-> [k \in 1..Len(arr) |->
                          IF k >= First(hits) /\ k < n THEN arr[k + 1] ELSE arr[k]],
              n |-> n - 1]

DeleteFieldFromSection(it, section, field) ==
    LET l == DeleteFieldLoop(it, it.Fields, Len(it.Fields), section)
    IN  IF ~l.found
        THEN [err |-> <<"Field not found in section">>, it |-> it]
        ELSE [err |-> NoErr, it |-> [it EXCEPT !.Fields = SubSeq(l.arr, 1, l.n)]]

RECURSIVE DeleteSectionLoop(_, _, _, _, _)
\* The first loop of DeleteSection.  `range item.Fields` fixes the backing
\* array arr and the number of rounds Len(arr) at the start; each round reads
\* arr[k] as the calls of DeleteFieldFromSection have left it, n being the
\* current len(item.Fields).
DeleteSectionLoop(it, arr, n, section, k) ==
    IF k > Len(arr) THEN [err |-> NoErr, arr |-> arr, n |-> n]
    ELSE IF arr[k].Section # NilSection /\ Deref(it, arr[k].Section).ID = section.ID
    THEN LET l == DeleteFieldLoop(it, arr, n, section)
         IN  IF ~l.found
             THEN [err |-> <<"Field not found in section">>, arr |-> arr, n |-> n]
             ELSE DeleteSectionLoop(it, l.arr, l.n, section, k + 1)
    ELSE DeleteSectionLoop(it, arr, n, section, k + 1)

\* slices.Delete(item.Sections, i, i+1): the elements after i move one place
\* down in the same backing array; the vacated last place is zeroed by the
\* standard library from Go 1.22 on and left as it was before (clearTail).
SlicesDelete(it, i, clearTail) ==
    LET c == it.Sections.arr
        n == it.Sections.len
    IN  [it EXCEPT
           !.mem[c] = [k \in 1..c |->
                          IF k >= i /\ k < n THEN it.mem[c][k + 1]
                          ELSE IF k = n /\ clearTail THEN ZeroSection
                          ELSE it.mem[c][k]],
           !.Sections.len = n - 1]

DeleteSection(it, section, clearTail) ==
    LET l == DeleteSectionLoop(it, it.Fields, Len(it.Fields), section, 1)
        it1 == [it EXCEPT !.Fields = SubSeq(l.arr, 1, l.n)]
        hits == {i \in 1..it.Sections.len : SecSeq(it)[i].ID = section.ID}
    IN  IF l.err # NoErr THEN [err |-> l.err, it |-> it1]
        ELSE IF hits = {} THEN [err |-> NoErr, it |-> it1]
        ELSE [err |-> NoErr, it |-> SlicesDelete(it1, First(hits), clearTail)]

\* the sections and fields callers pass
SectionNames == <<"s1", "s2", "s3", "s4", "s5">>

SectionIDs == {SectionNames[k] : k \in 1..MaxSections}

Sections == [ID : SectionIDs, Label : {"L"}]

FieldNames == <<"f1", "f2", "f3", "f4", "f5">>

FieldIDs == {FieldNames[k] : k \in 1..MaxFields}

SecFields ==
    [ID : FieldIDs, Purpose : {"password"}, Section : {NilSection},
     Value : {"alice"}]

\* a local edit of the item: the caller looks at the error it returned
Edits(op, in, r) ==
    /\ Idle
    /\ item.edits < MaxEdits
    /\ item' = [r.it EXCEPT !.edits = item.edits + 1]
    /\ ret' = [op |-> op, in |-> in, answer |-> NoAnswer, panic |-> FALSE,
               err |-> r.err, out |-> NoOut]
    /\ spawned' = <<>>
    /\ UNCHANGED <<proc, cli, heap, env, now, signedAt>>

\* callers name a new section, and a new field, by the first name not in use
FreshSection(section) ==
    \E k \in 1..MaxSections :
        /\ section.ID = SectionNames[k]
        /\ isSectionIDUnique(item, section.ID)
        /\ \A j \in 1..(k - 1) : ~isSectionIDUnique(item, SectionNames[j])

FieldInUse(id) == \E i \in 1..Len(item.Fields) : item.Fields[i].ID = id

FreshField(field) ==
    \E k \in 1..MaxFields :
        /\ field.ID = FieldNames[k]
        /\ ~FieldInUse(field.ID)
        /\ \A j \in 1..(k - 1) : FieldInUse(FieldNames[j])

CallAddSection(section) ==
    /\ item.Sections.len < MaxSections
    /\ FreshSection(section)
    /\ Edits("AddSection", <<section>>, AddSection(item, section))

CallAddFieldIn(field) ==
    /\ Len(item.Fields) < MaxFields
    /\ FreshField(field)
    /\ Edits("AddField", <<field>>,
             [err |-> NoErr, it |-> [item EXCEPT !.Fields = AddField(item.Fields, field)]])

CallAddFieldToSection(section, field) ==
    /\ Len(item.Fields) < MaxFields
    /\ FreshField(field)
    /\ Edits("AddFieldToSection", <<section, field>>,
             AddFieldToSection(item, section, field))

CallMoveFieldToSection(field, section) ==
    /\ FieldInUse(field.ID)
    /\ Edits("MoveFieldToSection", <<section, field>>,
             MoveFieldToSection(item, field, section))

CallDeleteFieldFromSection(section, field) ==
    /\ FieldInUse(field.ID)
    /\ Edits("DeleteFieldFromSection", <<section, field, item.Fields>>,
             DeleteFieldFromSection(item, section, field))

CallDeleteSection(section, clearTail) ==
    Edits("DeleteSection", <<section>>, DeleteSection(item, section, clearTail))

----------------------------------------------------------------------------
(* src/permissions.go: ResolvePermissions *)

Permissions ==
    {"view_items", "create_items", "edit_items", "archive_items", "delete_items",
     "view_and_copy_passwords", "view_item_history", "import_items",
     "export_items", "copy_and_share_items", "print_items", "manage_vault",
     "allow_viewing", "allow_editing", "allow_managing", "move_items"}

PermissionDependencies ==
    [permission \in
         {"create_items", "view_and_copy_passwords", "edit_items", "archive_items",
          "delete_items", "view_item_history", "import_items", "export_items",
          "copy_and_share_items", "print_items"} |->
     CASE permission = "create_items" -> <<"create_items", "view_items">>
       [] permission = "view_and_copy_passwords" ->
              <<"view_items", "view_and_copy_passwords">>
       [] permission = "edit_items" ->
              <<"edit_items", "view_and_copy_passwords", "view_items">>
       [] permission = "archive_items" ->
              <<"archive_items", "edit_items", "view_and_copy_passwords", "view_items">>
       [] permission = "delete_items" ->
              <<"delete_items", "edit_items", "view_and_copy_passwords", "view_items">>
       [] permission = "view_item_history" ->
              <<"view_item_history", "view_and_copy_passwords", "view_items">>
       [] permission = "import_items" ->
              <<"import_items", "create_items", "view_items">>
       [] permission = "export_items" ->
              <<"export_items", "view_item_history", "view_and_copy_passwords",
                "view_items">>
       [] permission = "copy_and_share_items" ->
              <<"copy_and_share_items", "view_item_history",
                "view_and_copy_passwords", "view_items">>
       [] permission = "print_items" ->
              <<"print_items", "view_item_history", "view_and_copy_passwords",
                "view_items">>]

\* a resolution that keeps only the first dependency
Resolved_First(permission) ==
    IF permission \notin DOMAIN PermissionDependencies THEN {permission}
    ELSE {PermissionDependencies[permission][1]}

\* the keys of the map `resolved`
Resolved(permission) ==
    IF permission \notin DOMAIN PermissionDependencies THEN {permission}
    ELSE {PermissionDependencies[permission][i] :
              i \in 1..Len(PermissionDependencies[permission])}

\* the orders in which a range over a map may visit its keys
MapOrders(keys) ==
    {q \in [1..Cardinality(keys) -> keys] : \A k \in keys : \E i \in DOMAIN q : q[i] = k}

\* ResolvePermissions(permission): the elements of the comma-separated result,
\* in the order the map range produced them
ResolvePermissions(permission) == MapOrders(Resolved(permission))

CallResolvePermissions(permission) ==
    \E result \in ResolvePermissions(permission) :
        /\ Idle
        /\ ret' = [op |-> "ResolvePermissions", in |-> <<permission>>,
                   answer |-> NoAnswer, panic |-> FALSE, err |-> NoErr,
                   out |-> result]
        /\ spawned' = <<>>
        /\ UNCHANGED <<proc, cli, heap, env, now, signedAt, item>>

----------------------------------------------------------------------------
(* The calls a caller makes *)

\* Arguments callers pass to ExecuteOpCommand and Execute.
CmdWords == {"item", "list", "--format=json", "--account", "u1"}

ExecWords == {"signin", "item", "account", "--raw", "--format=json", "my account"}

ArgLists(words) == SeqsUpTo(words, MaxArgs)

\* Where the payload is not decoded, one good and one bad answer are enough.
RawOutcomes ==
    { [exit |-> 0, stdout |-> [shape |-> "object", ids |-> <<"e1">>], stderr |-> <<>>],
      [exit |-> 1, stdout |-> NoPayload, stderr |-> <<"vault", "not", "found">>] }

\* What a child of Execute answers: as above, or a failure that prints nothing.
ExecOutcomes ==
    RawOutcomes \cup {[exit |-> 1, stdout |-> NoPayload, stderr |-> <<>>]}

\* Entities in the caller's hands: decoded ones carry the handle, literals
\* built by the caller (Item{}, Vault{}) carry none.
Entities(kind) == [kind : {kind}, ID : {"", "e1"}, cli : {NilCli, TheCli}]

CallExecuteOpCommand(args, o) ==
    Returns("ExecuteOpCommand", <<args>>, o, ExecuteOpCommand(TheCli, args, o))

\* the answers Execute never reads are fixed
ExecuteAsked(args, pw, pipeOk) ==
    IF Len(args) > 0 /\ args[1] = "signin"
    THEN pw.ok \/ pipeOk
    ELSE pw = NoRead /\ pipeOk

CallExecute(args, o, pw, pipeOk) ==
    /\ ExecuteAsked(args, pw, pipeOk)
    /\ Returns("Execute", <<args, pw>>, o, Execute(args, o, pw, pipeOk))

CallCreateItem(it, genPassword, o) ==
    Returns("CreateItem", <<it, genPassword>>, o, CreateItem(TheCli, it, genPassword, o))

CallUpdateItemWithStruct(it, o) ==
    Returns("updateItemWithStruct", <<it>>, o, updateItemWithStruct(TheCli, it, o))

CallList(o) ==
    \/ Returns("GetItems", <<>>, o, GetItems(o))
    \/ Returns("GetVaultDetails", <<>>, o, GetVaultDetails(o))
    \/ Returns("GetVaultDetailsPlain", <<>>, o, GetVaultDetailsPlain(o))
    \/ Returns("ListGroups", <<>>, o, ListGroups(o))
    \/ Returns("ListUsers", <<>>, o, ListUsers(o))
    \/ \E g \in Entities("Group") :
           Returns("ListMembers", <<g>>, o, ListMembers(g, o))

CallGet(id, o) ==
    \/ Returns("getItem", <<id>>, o, getItem(id, o))
    \/ Returns("getVaultDetails", <<id>>, o, getVaultDetails(id, o))
    \/ Returns("getGroup", <<id>>, o, getGroup(id, o))
    \/ Returns("getUser", <<id>>, o, getUser(id, o))
    \/ Returns("CreateGroup", <<id>>, o, CreateGroup(id, o))

CallSelf(o) ==
    \/ \E e \in Entities("Item") : Returns("Item.Save", <<e>>, o, ItemSave(e, o))
    \/ \E e \in Entities("Item") : Returns("Item.Delete", <<e>>, o, ItemDelete(e, o))
    \/ \E e \in Entities("Vault") : Returns("Vault.Delete", <<e>>, o, VaultDelete(e, o))
    \/ \E e \in Entities("Vault"), name \in {"", "n1"} :
           Returns("Vault.SetName", <<e, name>>, o, VaultSetName(e, name, o))
    \/ \E e \in Entities("Group") : Returns("Group.Delete", <<e>>, o, GroupDelete(e, o))
    \/ \E e \in Entities("User") : Returns("User.Delete", <<e>>, o, UserDelete(e, o))

----------------------------------------------------------------------------
(* src/client.go: a sign-in child process, the goroutine that feeds its stdin
   and the caller's context, step by step. What SignIn and Execute return is
   modelled above; here the order in which the parent, the child, the writer
   goroutine and the context act. *)

\* how the child ends: a token on stdout, an empty stdout, a password prompt
\* on stderr, any other failure
ChildExits == {"ok", "empty", "prompt", "fail"}

NoProc ==
    [call |-> "none", pc |-> "idle", attempt |-> 0, child |-> "none",
     exit |-> "none", ctx |-> "live", writer |-> "none", wrote |-> "pending",
     wend |-> "none", closedBy |-> "none", buf |-> <<>>, stdin |-> <<>>,
     password |-> "", result |-> "none"]

Rest == <<cli, heap, env, now, signedAt, spawned, ret, item>>

\* the read end of the stdin pipe is open: the parent holds it until Start,
\* the child while it runs
ReadEndOpen == proc.pc = "start" \/ proc.child = "running"

\* closing the parent's write end of the pipe; closing it twice is harmless
CloseWriteEnd(p, who) ==
    IF p.wend = "open" THEN [p EXCEPT !.wend = "closed", !.closedBy = who] ELSE p

\* Execute("signin", ...) after readPassword: pipePasswordCommand creates the
\* pipe, starts the writer goroutine and returns the command; with no pipe it
\* returns nil and Execute calls Output on nil
StartPipe(password, pipeOk) ==
    /\ proc.call = "none"
    /\ proc' = IF pipeOk
               THEN [NoProc EXCEPT !.call = "Execute", !.pc = "start",
                                   !.password = password, !.writer = "write",
                                   !.wend = "open"]
               ELSE [NoProc EXCEPT !.call = "Execute", !.pc = "panicked",
                                   !.password = password, !.result = "panic"]
    /\ UNCHANGED Rest

\* the goroutine: stdin.Write([]byte(password + "\n")); it fails on a pipe
\* whose write end is closed or that has no reader left
WriterWrite ==
    /\ proc.writer = "write"
    /\ proc' = IF proc.wend = "open" /\ ReadEndOpen
               THEN [proc EXCEPT !.writer = "close", !.wrote = "ok",
                                 !.buf = <<proc.password, "\n">>]
               ELSE [proc EXCEPT !.writer = "close", !.wrote = "err"]
    /\ UNCHANGED Rest

\* the goroutine: the deferred stdin.Close()
WriterClose ==
    /\ proc.writer = "close"
    /\ proc' = CloseWriteEnd([proc EXCEPT !.writer = "done"], "writer")
    /\ UNCHANGED Rest

\* signinCmd.Output(): Start; when the child cannot be started Start closes
\* the pipe and Output returns the error
OutputStart(ok) ==
    /\ proc.call = "Execute" /\ proc.pc = "start"
    /\ proc' = IF ok
               THEN [proc EXCEPT !.pc = "wait", !.child = "running"]
               ELSE CloseWriteEnd([proc EXCEPT !.pc = "returned",
                                               !.result = "error"], "parent")
    /\ UNCHANGED Rest

\* the child reads what is in its stdin
ChildRead ==
    /\ proc.child = "running" /\ proc.buf # <<>>
    /\ proc' = [proc EXCEPT !.stdin = proc.stdin \o proc.buf, !.buf = <<>>]
    /\ UNCHANGED Rest

\* the child exits, whether or not it has read its stdin
ChildExit(e) ==
    /\ proc.child = "running"
    /\ proc' = [proc EXCEPT !.child = "exited", !.exit = e]
    /\ UNCHANGED Rest

\* signinCmd.Output(): Wait sees the child exit, closes the parent's end of
\* the pipe, and Execute returns what Output returns
OutputWait ==
    /\ proc.call = "Execute" /\ proc.pc = "wait" /\ proc.child = "exited"
    /\ proc' = CloseWriteEnd(
                   [proc EXCEPT !.pc = "returned",
                                !.result = IF proc.exit \in {"ok", "empty"}
                                           THEN "output" ELSE "error"],
                   "parent")
    /\ UNCHANGED Rest

\* SignIn(ctx, account): exec.CommandContext(ctx, ...) and Run start the
\* passwordless attempt
SignInStart ==
    /\ proc.call = "none"
    /\ proc' = [NoProc EXCEPT !.call = "SignIn", !.pc = "run", !.attempt = 1,
                              !.child = "running"]
    /\ UNCHANGED Rest

\* the caller cancels the context it passed to SignIn
CtxCancel ==
    /\ proc.call = "SignIn" /\ proc.ctx = "live" /\ proc.pc # "returned"
    /\ proc' = [proc EXCEPT !.ctx = "cancelled"]
    /\ UNCHANGED Rest

\* exec.CommandContext: the child is killed once the context is done; it
\* may have printed its prompt before
CtxKill(e) ==
    /\ proc.call = "SignIn" /\ proc.ctx = "cancelled" /\ proc.child = "running"
    /\ proc' = [proc EXCEPT !.child = "killed", !.exit = e]
    /\ UNCHANGED Rest

\* signinCmd.Run() returns: nil, a password prompt on stderr, or another error
SignInRunReturns ==
    /\ proc.call = "SignIn" /\ proc.pc = "run" /\ proc.attempt = 1
    /\ proc.child \in {"exited", "killed"}
    /\ proc' = IF proc.exit \in {"ok", "empty"}
               THEN [proc EXCEPT !.pc = "returned", !.result = "nil"]
               ELSE IF proc.exit = "prompt"
               THEN [proc EXCEPT !.pc = "read"]
               ELSE [proc EXCEPT !.pc = "returned", !.result = "error"]
    /\ UNCHANGED Rest

\* readPassword, then the second exec.CommandContext(ctx, ...) with the
\* password as stdin; a context that is done starts no child
SignInRetry(pw) ==
    /\ proc.call = "SignIn" /\ proc.pc = "read"
    /\ proc' = IF ~pw.ok \/ proc.ctx = "cancelled"
               THEN [proc EXCEPT !.pc = "returned", !.result = "error"]
               ELSE [proc EXCEPT !.pc = "run", !.attempt = 2,
                                 !.child = "running", !.exit = "none",
                                 !.password = pw.password,
                                 !.buf = <<pw.password>>]
    /\ UNCHANGED Rest

\* cmd.Output() of the second attempt returns
SignInOutputReturns ==
    /\ proc.call = "SignIn" /\ proc.pc = "run" /\ proc.attempt = 2
    /\ proc.child \in {"exited", "killed"}
    /\ proc' = [proc EXCEPT !.pc = "returned",
                            !.result = IF proc.exit = "ok" THEN "nil" ELSE "error"]
    /\ UNCHANGED Rest

\* the caller has the result and no goroutine of the call is left
ProcDone ==
    /\ proc.pc \in {"returned", "panicked"}
    /\ proc.writer \in {"none", "done"}
    /\ proc' = NoProc
    /\ UNCHANGED Rest

----------------------------------------------------------------------------
(* The initial state and the specifications *)

NoItem ==
    [cli |-> NilCli, ID |-> "", URLs |-> <<>>, Fields |-> <<>>,
     Sections |-> NoSections, mem |-> NoMem, edits |-> 0]

Init ==
    /\ cli = [Path |-> OpPath, Account |-> NilAccount, accesstoken |-> "",
              isServiceAccount |-> FALSE]
    /\ heap = [p \in HeapPtrs |-> ZeroAccount(p)]
    /\ env = [k \in EnvKeys |-> Unset]
    /\ now = StartClock
    /\ signedAt = [p \in AccountPtrs |-> Never]
    /\ spawned = <<>>
    /\ ret = NoCall
    /\ item = NoItem
    /\ proc = NoProc

\* The session clock: one account signing in, time passing, validity checks.
NextSession ==
    \/ Idle /\ \E o1, o2 \in SigninOutcomes, pw \in PasswordReads :
           SignIn("acc1", o1, pw, o2)
    \/ Idle /\ \E accesstoken \in AccessTokens, me \in GetMeOutcomes :
           SignInWithServiceAccount(accesstoken, me)
    \/ Idle /\ \E p \in {"acc1"} \cup ({cli.Account} \ {NilAccount}) : CheckSession(p)
    \/ Idle /\ \E d \in TickSteps : Tick(d)
    \/ Done

SpecSession == Init /\ [][NextSession]_vars

\* The command layer: sign-in, the command builder, the decoders and the
\* entities' own operations, at a fixed time.
Next ==
    \/ Idle /\ \E p \in AccountPtrs, o1, o2 \in SigninOutcomes, pw \in PasswordReads :
           SignIn(p, o1, pw, o2)
    \/ Idle /\ \E accesstoken \in AccessTokens, me \in GetMeOutcomes :
           SignInWithServiceAccount(accesstoken, me)
    \/ Idle /\ \E args \in ArgLists(CmdWords), o \in RawOutcomes :
           CallExecuteOpCommand(args, o)
    \/ Idle /\ \E args \in ArgLists(ExecWords), o \in ExecOutcomes, pw \in PasswordReads,
          pipeOk \in BOOLEAN :
           CallExecute(args, o, pw, pipeOk)
    \/ Idle /\ \E it \in Entities("Item"), g \in BOOLEAN, o \in CmdOutcomes :
           CallCreateItem(it, g, o)
    \/ Idle /\ \E it \in Entities("Item"), o \in CmdOutcomes :
           CallUpdateItemWithStruct(it, o)
    \/ Idle /\ \E o \in CmdOutcomes : CallList(o)
    \/ Idle /\ \E id \in EntityIDs, o \in CmdOutcomes : CallGet(id, o)
    \/ Idle /\ \E o \in RawOutcomes : CallSelf(o)
    \/ Done

Spec == Init /\ [][Next]_vars

\* An item edited locally: its URL list.
NextItem ==
    \/ Idle /\ \E url \in ItemURLs : CallAddURL(url)
    \/ Idle /\ \E href \in Hrefs : CallDeleteURLs(href)
    \/ Done

SpecItem == Init /\ [][NextItem]_vars

\* An item edited locally: its field list.
NextFields ==
    \/ \E field \in Fields : CallAddField(field)
    \/ \E username \in Usernames : CallAddUserName(username)
    \/ Done

SpecFields == Init /\ [][NextFields]_vars

\* An item edited locally: its sections and the fields in them.
NextSections ==
    \/ Idle /\ \E section \in Sections : CallAddSection(section)
    \/ Idle /\ \E field \in SecFields : CallAddFieldIn(field)
    \/ Idle /\ \E section \in Sections, field \in SecFields :
           CallAddFieldToSection(section, field)
    \/ Idle /\ \E section \in Sections, field \in SecFields :
           CallMoveFieldToSection(field, section)
    \/ Idle /\ \E section \in Sections, field \in SecFields :
           CallDeleteFieldFromSection(section, field)
    \/ Idle /\ \E section \in Sections, clearTail \in BOOLEAN :
           CallDeleteSection(section, clearTail)
    \/ Done

SpecSections == Init /\ [][NextSections]_vars

\* A sign-in in progress: the parent, the child, the writer goroutine and the
\* caller's context take their steps in any order.
NextRun ==
    \/ \E password \in Passwords, pipeOk \in BOOLEAN : StartPipe(password, pipeOk)
    \/ WriterWrite
    \/ WriterClose
    \/ \E ok \in BOOLEAN : OutputStart(ok)
    \/ ChildRead
    \/ \E e \in ChildExits : ChildExit(e)
    \/ OutputWait
    \/ SignInStart
    \/ CtxCancel
    \/ \E e \in {"prompt", "fail"} : CtxKill(e)
    \/ SignInRunReturns
    \/ \E pw \in PasswordReads : SignInRetry(pw)
    \/ SignInOutputReturns
    \/ ProcDone

SpecRun == Init /\ [][NextRun]_vars

\* The Go scheduler runs every goroutine that can take a step: the parent,
\* the writer and the watcher of the context. Nothing makes the child exit
\* or the caller cancel.
FairSpecRun ==
    /\ SpecRun
    /\ WF_vars(WriterWrite)
    /\ WF_vars(WriterClose)
    /\ WF_vars(\E ok \in BOOLEAN : OutputStart(ok))
    /\ WF_vars(OutputWait)
    /\ WF_vars(\E e \in {"prompt", "fail"} : CtxKill(e))
    /\ WF_vars(SignInRunReturns)
    /\ WF_vars(SignInOutputReturns)

\* Permission strings resolved for a vault grant.
NextPermissions ==
    \/ \E permission \in Permissions : CallResolvePermissions(permission)
    \/ Done

SpecPermissions == Init /\ [][NextPermissions]_vars

----------------------------------------------------------------------------
(* Properties *)

Range(q) == {q[i] : i \in 1..Len(q)}

Count(q, x) == Cardinality({i \in 1..Len(q) : q[i] = x})

\* the number of places where q holds x immediately followed by y
CountPair(q, x, y) ==
    Cardinality({i \in 1..(Len(q) - 1) : q[i] = x /\ q[i + 1] = y})

ListOps ==
    {"GetItems", "GetVaultDetails", "GetVaultDetailsPlain", "ListGroups",
     "ListUsers", "ListMembers"}

OneOps ==
    {"getItem", "getVaultDetails", "getGroup", "getUser", "CreateGroup",
     "CreateItem", "updateItemWithStruct"}

SelfOps ==
    {"Item.Save", "Item.Delete", "Vault.Delete", "Vault.SetName", "Group.Delete",
     "User.Delete"}

DomainOps == {"ExecuteOpCommand"} \cup ListOps \cup OneOps \cup SelfOps

\* the handle a call ran on: an entity's back-reference, or the handle itself
ReceiverOf(r) ==
    IF r.op \in SelfOps \cup {"ListMembers"} THEN r.in[1].cli ELSE TheCli

SpawnsSignin ==
    \/ ret.op = "SignIn"
    \/ ret.op = "Execute" /\ Len(ret.in[1]) > 0 /\ ret.in[1][1] = "signin"

\* C1: every domain command issued through ExecuteOpCommand with a signed-in
\* account hands the subprocess exactly one --format=json flag and exactly
\* one --account <UserUUID> pair, whatever base arguments the caller gave.
C1_ExactlyOneFlagAndAccount ==
    (ret.op = "ExecuteOpCommand" /\ spawned # <<>>) =>
        /\ Count(spawned[1].argv, "--format=json") = 1
        /\ Count(spawned[1].argv, "--account") = 1
        /\ CountPair(spawned[1].argv, "--account", heap[cli.Account].UserUUID) = 1

\* C2 as stated: on every path that spawns the signin verb, the child's
\* argument list never contains --format=json.
C2_SigninNeverFormatJSON ==
    SpawnsSignin =>
        \A i \in 1..Len(spawned) : "--format=json" \notin Range(spawned[i].argv)

\* C2 as amended: the code adds no --format=json on a signin path.  SignIn's
\* children never carry it, and the child of Execute("signin", ...) carries
\* it only where the caller's own arguments hold that word.
C2_SigninNoInjectedFormatJSON ==
    /\ ret.op = "SignIn" =>
           \A i \in 1..Len(spawned) : "--format=json" \notin Range(spawned[i].argv)
    /\ (ret.op = "Execute" /\ SpawnsSignin) =>
           \A i \in 1..Len(spawned) :
               "--format=json" \in Range(spawned[i].argv) =>
                   \E j \in 1..Len(ret.in[1]) :
                       "--format=json" \in Range(WordsOf(ret.in[1][j]))

C2_Witness ==
    /\ ret.op = "Execute"
    /\ SpawnsSignin
    /\ Len(spawned) = 1
    /\ "--format=json" \notin Range(spawned[1].argv)
    /\ Len(ret.in[1]) > 1

\* C3: a password read by readPassword, in SignIn's fallback and in
\* Execute("signin", ...), is in no spawned process's argument list; the
\* child started after the read gets it on its standard input.
C3_PasswordOnlyOnStdin ==
    (ret.op \in {"SignIn", "Execute"} /\ ret.in[2].ok) =>
        /\ \A i \in 1..Len(spawned) :
               ret.in[2].password \notin Range(spawned[i].argv)
        /\ spawned # <<>> =>
               /\ spawned[Len(spawned)].stdin # <<>>
               /\ spawned[Len(spawned)].stdin[1] = ret.in[2].password

C3_Witness ==
    /\ ret.op = "SignIn"
    /\ ret.in[2].ok
    /\ Len(spawned) = 2
    /\ spawned[2].stdin = <<ret.in[2].password>>

\* C4: with cli.Account nil or its UserUUID empty, every domain command
\* returns an error at once, spawns no subprocess and leaves the handle, the
\* accounts and the environment as they were.
C4_MissingAccountFailsFast ==
    [][((cli.Account = NilAccount \/ heap[cli.Account].UserUUID = "")
          /\ ret'.op \in DomainOps /\ ReceiverOf(ret') = TheCli) =>
          /\ ~ret'.panic
          /\ ret'.err # NoErr
          /\ spawned' = <<>>
          /\ cli' = cli /\ heap' = heap /\ env' = env]_vars

C4_Witness ==
    /\ ret.op = "CreateItem"
    /\ ret.in[1].ID = ""
    /\ cli.Account = "acc0"
    /\ ret.err = <<"account information is missing">>
    /\ spawned = <<>>

\* C5: IsSessionValid is true right after a SignIn that returned nil, and
\* false once more than 29 minutes have passed since the last such SignIn.
C5_ValidThenExpires ==
    \A p \in AccountPtrs :
        signedAt[p] # Never =>
            /\ now = signedAt[p][1] => IsSessionValid(heap[p])
            /\ now - signedAt[p][1] > SignInExpireMinutes => ~IsSessionValid(heap[p])

C5_Witness ==
    /\ ret.op = "IsSessionValid"
    /\ ret.in[1] \in AccountPtrs
    /\ signedAt[ret.in[1]] # Never
    /\ now - signedAt[ret.in[1]][1] > SignInExpireMinutes
    /\ ret.out = FALSE

\* C6: IsSessionValid returns true exactly when
\* now - signInTime < signInExpireDuration, so a session is invalid at
\* exactly 29 minutes.
C6_StrictExpiry ==
    ret.op = "IsSessionValid" =>
        (ret.out <=>
            now - heap[ret.in[1]].signInTime < heap[ret.in[1]].signInExpireDuration)

\* C7: a list operation that decodes a response of N entities returns N
\* records, each with the issuing handle as its back-reference.
C7_ListBackReferences ==
    (ret.op \in ListOps /\ ~ret.panic /\ ret.err = NoErr) =>
        /\ Len(ret.out) = Len(ret.answer.stdout.ids)
        /\ \A i \in 1..Len(ret.out) :
               /\ ret.out[i].ID = ret.answer.stdout.ids[i]
               /\ ret.out[i].cli = TheCli

\* C8: an entity returned by a decoding operation that is not a list, the
\* items of CreateItem and updateItemWithStruct included, has the issuing
\* handle as its back-reference.
C8_SingleBackReference ==
    (ret.op \in OneOps /\ ~ret.panic /\ ret.err = NoErr) => ret.out.cli = TheCli

\* C9: a mutating self-operation on an entity whose back-reference is nil
\* returns an error, spawns no subprocess and does not panic.
C9_NilBackReferenceFailsFast ==
    (ret.op \in SelfOps /\ ret.in[1].cli = NilCli) =>
        /\ ~ret.panic
        /\ ret.err # NoErr
        /\ spawned = <<>>

\* C10: DeleteURLs on an item with one URL returns an error, spawns nothing
\* and leaves URLs as they were; on an item with two URLs of different href,
\* called with one of the two, it returns nil and leaves exactly the other.
C10_DeleteURLs ==
    ret.op = "DeleteURLs" =>
        LET href == ret.in[1]
            before == ret.in[2]
        IN  /\ Len(before) = 1 =>
                   ret.err # NoErr /\ spawned = <<>> /\ item.URLs = before
            /\ (Len(before) = 2 /\ before[1].Href # before[2].Href) =>
                   /\ href = before[1].Href =>
                          ret.err = NoErr /\ item.URLs = <<before[2]>>
                   /\ href = before[2].Href =>
                          ret.err = NoErr /\ item.URLs = <<before[1]>>

C10_Witness ==
    /\ ret.op = "DeleteURLs"
    /\ Len(ret.in[2]) = 2
    /\ ret.in[2][1].Href # ret.in[2][2].Href
    /\ ret.err = NoErr
    /\ Len(item.URLs) = 1

UserNameFields(fields) ==
    {i \in 1..Len(fields) : fields[i].Purpose = "username"}

\* C11: AddUserName(u2) right after AddUserName(u1) appends nothing: the item
\* has as many fields, and as many username-purpose fields, as after the first
\* call, and a username-purpose field holds u2.
C11_AddUserNameUpsert ==
    [][(ret.op = "AddUserName" /\ ret'.op = "AddUserName") =>
          /\ Len(item'.Fields) = Len(item.Fields)
          /\ Cardinality(UserNameFields(item'.Fields))
                 = Cardinality(UserNameFields(item.Fields))
          /\ \E i \in UserNameFields(item'.Fields) :
                 item'.Fields[i].Value = ret'.in[1]]_vars

\* C12: when Execute runs a non-interactive command whose process exits
\* non-zero, it returns no stdout and an OpCliError whose StderrOutput is the
\* captured stderr; the error's message is that stderr when it is non-empty
\* and the process error otherwise.
C12_ExecuteOpCliError ==
    (/\ ret.op = "Execute"
     /\ Len(ret.in[1]) > 0
     /\ ret.in[1][1] \notin {"signin", "account", "user"}
     /\ ret.answer.exit # 0) =>
        /\ ~ret.panic
        /\ ret.out = NoOut
        /\ Len(ret.err) = 3
        /\ ret.err[1] = "OpCliError"
        /\ ret.err[2] = ret.answer.stderr
        /\ Error(ret.err) = IF ret.answer.stderr # <<>>
                             THEN ret.answer.stderr
                             ELSE <<"exit", "status", "1">>

C12_Witness ==
    /\ ret.op = "Execute"
    /\ Len(ret.in[1]) > 0
    /\ ret.in[1][1] = "item"
    /\ ret.answer.exit # 0
    /\ ret.answer.stderr = <<"vault", "not", "found">>
    /\ Len(spawned) = 1
    /\ Error(ret.err) = <<"vault", "not", "found">>

\* C13: when a domain command issued through ExecuteOpCommand exits non-zero
\* with non-empty stderr, the error returned to the caller carries that
\* stderr text in its message.
C13_StderrVerbatim ==
    (/\ ret.op = "ExecuteOpCommand"
     /\ spawned # <<>>
     /\ ret.answer.exit # 0
     /\ ret.answer.stderr # <<>>) =>
        /\ ret.err # NoErr
        /\ \E i \in 1..Len(ret.err) : ret.err[i] = ret.answer.stderr

\* C14: for a permission with an entry in PermissionDependencies the result
\* of ResolvePermissions holds exactly the permissions listed for it, each
\* once (for edit_items: edit_items, view_and_copy_passwords, view_items);
\* for a permission without dependencies such as manage_vault the result is
\* that permission alone.
C14_ResolvePermissions ==
    ret.op = "ResolvePermissions" =>
        LET permission == ret.in[1]
            listed == IF permission \in DOMAIN PermissionDependencies
                      THEN Range(PermissionDependencies[permission])
                      ELSE {permission}
        IN  /\ Range(ret.out) = listed
            /\ Len(ret.out) = Cardinality(listed)
            /\ permission = "edit_items" =>
                   Range(ret.out) =
                       {"edit_items", "view_and_copy_passwords", "view_items"}
            /\ permission = "manage_vault" => ret.out = <<"manage_vault">>

C14_Witness ==
    /\ ret.op = "ResolvePermissions"
    /\ ret.in[1] = "edit_items"
    /\ ret.out = <<"view_items", "edit_items", "view_and_copy_passwords">>

\* C15: ResolvePermissions(move_items) holds exactly view_items, edit_items,
\* archive_items, view_and_copy_passwords, view_item_history and
\* copy_and_share_items.
C15_MoveItems ==
    (ret.op = "ResolvePermissions" /\ ret.in[1] = "move_items") =>
        Range(ret.out) =
            {"view_items", "edit_items", "archive_items", "view_and_copy_passwords",
             "view_item_history", "copy_and_share_items"}

\* C16: a passwordless attempt that exits cleanly with an empty token does
\* not authenticate: SignIn does not return nil, and the handle is not left
\* with an Account whose session token is empty.
C16_EmptyTokenNotAuthenticated ==
    (ret.op = "SignIn" /\ ret.answer.exit = 0 /\ ret.answer.stdout = "\n") =>
        /\ ret.err # NoErr
        /\ ~(cli.Account = ret.in[1] /\ heap[cli.Account].sessionToken = "")

\* C17: after a failed passwordless attempt SignIn reads a password, and
\* retries once it has one, exactly when stderr holds "enter the password
\* for" or "authentication" in any case; otherwise it reads no password, runs
\* no second subprocess and returns an error carrying the stderr text.
C17_NeedsPasswordClassification ==
    (ret.op = "SignIn" /\ ret.answer.exit # 0) =>
        IF ret.answer.stderr \in
               { <<"Enter", "the", "password", "for", "u1">>,
                 <<"[ERROR]", "Authentication", "required">> }
        THEN /\ ret.in[3]
             /\ ret.in[2].ok <=> Len(spawned) = 2
             /\ ret.in[2].ok => spawned[2].argv = spawned[1].argv
             /\ ~ret.in[2].ok => ret.err # NoErr
        ELSE /\ ~ret.in[3]
             /\ Len(spawned) = 1
             /\ ret.err = <<"signin failed: ", ret.answer.stderr>>

C17_Witness ==
    /\ ret.op = "SignIn"
    /\ ret.answer.exit # 0
    /\ ret.answer.stderr = <<"[ERROR]", "Authentication", "required">>
    /\ ret.in[3]
    /\ Len(spawned) = 2

\* C18: SignInWithServiceAccount returns nil exactly when the lookup of the
\* own user succeeds, and then cli.Account holds that user's ID and email;
\* when the lookup fails it returns the lookup's error and cli.Account is
\* what it was before the call.
C18_ServiceAccountSignIn ==
    [][ret'.op = "SignInWithServiceAccount" =>
          /\ ret'.err = NoErr <=> ret'.answer.ok
          /\ ret'.answer.ok =>
                 /\ cli'.Account # NilAccount
                 /\ heap'[cli'.Account].UserUUID = ret'.answer.user.ID
                 /\ heap'[cli'.Account].Email = ret'.answer.user.Email
          /\ ~ret'.answer.ok =>
                 /\ ret'.err = ret'.answer.err
                 /\ cli'.Account = cli.Account
                 /\ cli.Account # NilAccount => heap'[cli.Account] = heap[cli.Account]]_vars

C18_Witness ==
    /\ ret.op = "SignInWithServiceAccount"
    /\ ~ret.answer.ok
    /\ ret.err = <<"failed to get user">>
    /\ cli.Account = "acc1"

\* C19: a handle never holds both authentication states: the service-account
\* flag or token is never set while cli.Account is an interactively signed-in
\* account, and a handle whose flag is set has an Account populated by the
\* lookup of the own user.
C19_ExclusiveAuthentication ==
    /\ ~(cli.isServiceAccount /\ cli.Account \in AccountPtrs)
    /\ ~(cli.accesstoken # "" /\ cli.Account \in AccountPtrs)
    /\ cli.isServiceAccount => cli.Account = ServicePtr

\* C20: an Account populated by a successful SignInWithServiceAccount is
\* never reported expired: IsSessionValid on it is true at every later time.
C20_ServiceAccountNeverExpires ==
    (ret.op = "IsSessionValid" /\ ret.in[1] = ServicePtr) => ret.out = TRUE

\* C24: Execute never panics: every failure, a failing cmd.StdinPipe() for
\* the signin child included, comes back as a non-nil error.
C24_ExecuteNeverPanics ==
    ret.op = "Execute" => ~ret.panic

\* C25: the child of Execute("signin", a1, ..., an) gets exactly the caller's
\* arguments, in order, each as one argument, with nothing in front.
C25_SigninArgvExact ==
    (ret.op = "Execute" /\ SpawnsSignin /\ spawned # <<>>) =>
        spawned[1].argv = ret.in[1]

\* C26: on every path that pipes a password to a signin child, the bytes
\* written to stdin are the password followed by exactly one newline.
C26_PasswordThenNewline ==
    (ret.op \in {"SignIn", "Execute"} /\ ret.in[2].ok /\ spawned # <<>>) =>
        spawned[Len(spawned)].stdin = <<ret.in[2].password, "\n">>

\* C28: whenever SignIn returns an error, cli.Account, the accounts' sign-in
\* time, expiry and session token, and the environment are unchanged.
C28_SignInErrorFrame ==
    [][(ret'.op = "SignIn" /\ ret'.err # NoErr) =>
          cli' = cli /\ heap' = heap /\ env' = env]_vars

C28_Witness ==
    /\ ret.op = "SignIn"
    /\ ret.err = <<"no session token received from signin">>
    /\ cli.Account = ret.in[1]
    /\ heap[ret.in[1]].sessionToken = "tok1"
    /\ env[heap[ret.in[1]].UserUUID] = "tok1"

\* C29: after a DeleteURLs that returns nil the item still has at least one
\* URL, also where several URLs share the deleted href; after one that
\* returns an error the URL list is unchanged.
C29_DeleteURLsKeepsOne ==
    ret.op = "DeleteURLs" =>
        /\ ret.err = NoErr => Len(item.URLs) >= 1
        /\ ret.err # NoErr => item.URLs = ret.in[2]

FieldIDsOf(fields) == [i \in 1..Len(fields) |-> fields[i].ID]

\* the fields of fields, in order, whose ID is not id
WithoutID(fields, id) ==
    LET Keep(f) == f.ID # id IN SelectSeq(fields, Keep)

\* whether field f of item it is attached to the section with this ID
InSectionID(it, f, id) ==
    f.Section # NilSection /\ Deref(it, f.Section).ID = id

\* C21: DeleteFieldFromSection(section, field) removes exactly the field
\* whose ID is field.ID and which is in the section, leaving every other
\* field in place, and returns an error when no field with that ID is in the
\* section.
C21_DeleteFieldFromSection ==
    ret.op = "DeleteFieldFromSection" =>
        LET section == ret.in[1]
            field == ret.in[2]
            before == ret.in[3]
            target == {i \in 1..Len(before) :
                          /\ before[i].ID = field.ID
                          /\ InSectionID(item, before[i], section.ID)}
        IN  /\ target # {} =>
                   ret.err = NoErr /\ item.Fields = WithoutID(before, field.ID)
            /\ target = {} => ret.err # NoErr /\ item.Fields = before

\* C22: for any arrangement of fields, DeleteSection(section) returns nil,
\* removes every field of that section and the section itself, and leaves
\* the fields of other sections and those without a section.
C22_DeleteSection ==
    [][ret'.op = "DeleteSection" =>
          LET id == ret'.in[1].ID
              Stays(f) == ~InSectionID(item, f, id)
              Other(sec) == sec.ID # id
          IN  /\ ret'.err = NoErr
              /\ FieldIDsOf(item'.Fields) = FieldIDsOf(SelectSeq(item.Fields, Stays))
              /\ SecSeq(item') = SelectSeq(SecSeq(item), Other)]_vars

\* C30: through AddSection, AddFieldToSection, MoveFieldToSection and
\* DeleteSection, a field attached to a section other than the one deleted
\* (and other than the field moved) still reports the same section, ID and
\* label, afterwards.
C30_SectionAssociationKept ==
    [][ret'.op \in {"AddSection", "AddFieldToSection", "MoveFieldToSection",
                    "DeleteSection"} =>
          \A i \in 1..Len(item.Fields), j \in 1..Len(item'.Fields) :
              (/\ item.Fields[i].ID = item'.Fields[j].ID
               /\ item.Fields[i].Section # NilSection
               /\ ret'.op = "DeleteSection" =>
                      Deref(item, item.Fields[i].Section).ID # ret'.in[1].ID
               /\ ret'.op = "MoveFieldToSection" =>
                      item.Fields[i].ID # ret'.in[2].ID) =>
                  /\ item'.Fields[j].Section # NilSection
                  /\ Deref(item', item'.Fields[j].Section)
                         = Deref(item, item.Fields[i].Section)]_vars

\* C23: in the piped-password path of Execute the writer goroutine has
\* written the password and closed the pipe when Execute returns, the parent
\* never closes the pipe while the write is pending, and the writer closes
\* the pipe whether its write succeeded or failed.
C23_WriterJoined ==
    /\ (proc.call = "Execute" /\ proc.pc = "returned") => proc.writer = "done"
    /\ ~(proc.closedBy = "parent" /\ proc.writer = "write")
    /\ proc.writer = "done" => proc.wend = "closed"

\* C27: the passwordless attempt of SignIn always ends, by the child's exit,
\* by the cancellation of the context or by a timeout, so that SignIn does
\* not block in it for ever.
C27_SignInAttemptEnds ==
    (proc.call = "SignIn" /\ proc.attempt = 1 /\ proc.pc = "run")
        ~> ~(proc.call = "SignIn" /\ proc.attempt = 1 /\ proc.pc = "run")

\* once the context is cancelled the running child is terminated
CancelTerminatesChild ==
    (proc.call = "SignIn" /\ proc.ctx = "cancelled" /\ proc.child = "running")
        ~> (proc.child # "running")

====
